---- MODULE Spec2Model ----
(***************************************************************************)
(* The normalized-trend view of CryptoViz                                  *)
(* (crypto-frontend/public/js/normalized-trend.js): one fetch cycle of     *)
(* fetchAllCryptosData, the time-window filter of fetchHistoricalData, the *)
(* series aligner processChartData and the two normalizations done by      *)
(* renderZeroBasedChart and renderMinMaxChart.                             *)
(*                                                                         *)
(* Spec is one fetch cycle whose requests are all answered, over a wide    *)
(* range of responses.  PageSpec is the page over several cycles, with     *)
(* requests that fail, clicks on the time-range buttons and switches of    *)
(* theme, over a narrow range of responses; IdleSpec is the page left      *)
(* alone, under fair scheduling.  FunctionSpec calls fetchHistoricalData   *)
(* and processChartData on their own.  DebounceSpec is the debounced       *)
(* listener of the search box (debounce and initEventListeners of the      *)
(* dashboard script).                                                      *)
(*                                                                         *)
(* Numbers.  A JavaScript number is modelled as an exact fraction <<n, d>> *)
(* in lowest terms with d > 0, and the three non-finite values as          *)
(* <<0, 0>> (NaN), <<1, 0>> (Infinity) and <<-1, 0>> (-Infinity).  The     *)
(* rounding of IEEE doubles and the sign of zero are not modelled.         *)
(*                                                                         *)
(* Timestamps.  A timestamp is an epoch number (one unit = twelve hours).  *)
(* Its date value is the number itself; its string form, which is what     *)
(* Array.prototype.sort compares and what is used as the property key of   *)
(* priceMap, is its decimal representation.                                *)
(***************************************************************************)
EXTENDS Integers, Sequences, FiniteSets, TLC

\* ------------------------------------------------------------------ bounds

\* The largest number of (timestamp, price) entries that the responses of one
\* fetch cycle carry in total.
MaxPoints == 3

\* The symbols of a cycle: a prefix of the list of fetchAllCryptosData.
Cryptos == <<"btc", "eth">>

\* Epoch values a response may carry: the earliest one (0), one-digit values
\* and two-digit values.
Timestamps == {0, 1, 2, 3, 9, 10, 11}

\* The values the clock may show when a cycle runs: the '24h' window then
\* holds {0, 1, 2}, {1, 2, 3} or {9, 10, 11}.
Clocks == {2, 3, 11}

\* JavaScript null: the empty tuple, which is no number <<n, d>> and no boxed
\* timestamp <<t>>.
NULL == <<>>

\* ------------------------------------------------------------- JS numbers

Abs(x) == IF x < 0 THEN -x ELSE x

Sign(x) == IF x < 0 THEN -1 ELSE IF x > 0 THEN 1 ELSE 0

RECURSIVE GCD(_, _)
GCD(a, b) == IF b = 0 THEN a ELSE GCD(b, a % b)

\* The number n/d; d = 0 gives NaN, Infinity or -Infinity by the sign of n.
Frac(n, d) ==
    IF d = 0 THEN <<Sign(n), 0>>
    ELSE LET g == GCD(Abs(n), Abs(d))
         IN  <<(Sign(d) * n) \div g, Abs(d) \div g>>

Num(i) == <<i, 1>>

NaN == <<0, 0>>
PosInfinity == <<1, 0>>
NegInfinity == <<-1, 0>>

IsFinite(a) == a[2] # 0

\* ToNumber: null converts to 0 in arithmetic.
ToNumber(v) == IF v = NULL THEN Num(0) ELSE v

Neg(a) == <<-a[1], a[2]>>

Add(a, b) ==
    IF IsFinite(a) /\ IsFinite(b) THEN Frac(a[1] * b[2] + b[1] * a[2], a[2] * b[2])
    ELSE IF a = NaN \/ b = NaN THEN NaN
    ELSE IF IsFinite(a) THEN b
    ELSE IF IsFinite(b) THEN a
    ELSE IF a = b THEN a ELSE NaN

Sub(a, b) == Add(a, Neg(b))

Mul(a, b) == Frac(a[1] * b[1], a[2] * b[2])

Inv(b) ==
    IF b = NaN THEN NaN
    ELSE IF ~IsFinite(b) THEN Num(0)
    ELSE IF b[1] = 0 THEN PosInfinity
    ELSE Frac(b[2], b[1])

Div(a, b) == Mul(a, Inv(b))

\* a < b; false when either is NaN.
Less(a, b) ==
    IF a = NaN \/ b = NaN \/ a = b THEN FALSE
    ELSE IF a = NegInfinity \/ b = PosInfinity THEN TRUE
    ELSE IF a = PosInfinity \/ b = NegInfinity THEN FALSE
    ELSE a[1] * b[2] < b[1] * a[2]

Leq(a, b) == a # NaN /\ b # NaN /\ (a = b \/ Less(a, b))

\* Math.max(...xs) and Math.min(...xs): -Infinity and Infinity for no arguments,
\* NaN as soon as one argument is NaN.
RECURSIVE MathMax(_)
MathMax(xs) ==
    IF xs = <<>> THEN NegInfinity
    ELSE LET m == MathMax(Tail(xs))
             x == ToNumber(Head(xs))
         IN  IF x = NaN \/ m = NaN THEN NaN ELSE IF Less(m, x) THEN x ELSE m

RECURSIVE MathMin(_)
MathMin(xs) ==
    IF xs = <<>> THEN PosInfinity
    ELSE LET m == MathMin(Tail(xs))
             x == ToNumber(Head(xs))
         IN  IF x = NaN \/ m = NaN THEN NaN ELSE IF Less(x, m) THEN x ELSE m

\* Prices a response may carry: JSON null and the numbers 0 and 2.
Prices == {NULL, Num(0), Num(2)}

\* ------------------------------------------------------------- timestamps

\* String(t) of an epoch number: its decimal digits, most significant first.
RECURSIVE DecimalString(_)
DecimalString(t) == IF t < 10 THEN <<t>> ELSE Append(DecimalString(t \div 10), t % 10)

\* new Date(t).getTime() of an epoch number: the number itself.
GetTime(t) == t

\* s < t for strings: by code units from the left, a proper prefix first.
RECURSIVE StringLess(_, _)
StringLess(s, t) ==
    IF t = <<>> THEN FALSE
    ELSE IF s = <<>> THEN TRUE
    ELSE IF Head(s) # Head(t) THEN Head(s) < Head(t)
    ELSE StringLess(Tail(s), Tail(t))

\* The comparison Array.prototype.sort makes when it is given no comparator:
\* by the string forms of the two elements.
SortCompareLess(x, y) == StringLess(DecimalString(x), DecimalString(y))

\* xs (sorted) with x put at its place.
RECURSIVE SortInsert(_, _)
SortInsert(xs, x) ==
    IF xs = <<>> THEN <<x>>
    ELSE IF SortCompareLess(x, Head(xs)) THEN <<x>> \o xs
    ELSE <<Head(xs)>> \o SortInsert(Tail(xs), x)

\* array.sort() without a comparator.
RECURSIVE Sort(_)
Sort(xs) ==
    IF xs = <<>> THEN <<>>
    ELSE SortInsert(Sort(SubSeq(xs, 1, Len(xs) - 1)), xs[Len(xs)])

\* Whether a timestamp variable (null or a boxed timestamp <<t>>) is truthy:
\* null and the number 0 are not.
Truthy(ts) == ts # NULL /\ ts[1] # 0

\* ---------------------------------------------------- fetchHistoricalData

TimeRanges == {"24h", "7d", "1m"}

\* 24 * 60 * 60 * 1000 ms, in units of twelve hours.
DayLength == 2

\* cutoffTime, boxed; NULL stands for undefined (no branch assigns it).
CutoffTime(timeRange, currentTime) ==
    IF timeRange = "24h" THEN <<currentTime - DayLength>>
    ELSE IF timeRange = "7d" THEN <<currentTime - 7 * DayLength>>
    ELSE IF timeRange = "1m" THEN <<currentTime - 30 * DayLength>>
    ELSE NULL

\* A variant of InRange that leaves out the cutoff time itself.
InRangeAfterCutoff(t, cutoffTime, currentTime) ==
    /\ cutoffTime # NULL
    /\ GetTime(t) > cutoffTime[1]
    /\ GetTime(t) <= currentTime

\* timestamp >= cutoffTime && timestamp <= currentTime; a comparison with
\* undefined is false.
InRange(t, cutoffTime, currentTime) ==
    /\ cutoffTime # NULL
    /\ GetTime(t) >= cutoffTime[1]
    /\ GetTime(t) <= currentTime

\* The indices of data.timestamps that the loop keeps, in order.
RECURSIVE FilteredIndices(_, _, _, _)
FilteredIndices(timestamps, cutoffTime, currentTime, n) ==
    IF n = 0 THEN <<>>
    ELSE LET rest == FilteredIndices(timestamps, cutoffTime, currentTime, n - 1)
         IN  IF InRange(timestamps[n], cutoffTime, currentTime)
             THEN Append(rest, n) ELSE rest

\* The value fetchHistoricalData resolves with, for the response body data
\* read when the clock shows currentTime.
fetchHistoricalData(symbol, timeRange, data, currentTime) ==
    LET keep == FilteredIndices(data.timestamps, CutoffTime(timeRange, currentTime),
                                currentTime, Len(data.timestamps))
    IN  [symbol |-> symbol,
         timestamps |-> [k \in 1..Len(keep) |-> data.timestamps[keep[k]]],
         prices |-> [k \in 1..Len(keep) |-> data.prices[keep[k]]]]

\* ------------------------------------------------------- processChartData

\* A variant of SetAdd that collects into an array: every x is appended.
SetAddArray(xs, x) == Append(xs, x)

\* xs with x added as a Set adds it: at the end, unless it is there already.
SetAdd(xs, x) == IF \E k \in 1..Len(xs) : xs[k] = x THEN xs ELSE Append(xs, x)

RECURSIVE AddAll(_, _)
AddAll(xs, ts) == IF ts = <<>> THEN xs ELSE AddAll(SetAdd(xs, Head(ts)), Tail(ts))

\* allTimestamps after the first n series, in insertion order.
RECURSIVE AllTimestamps(_, _)
AllTimestamps(cryptoData, n) ==
    IF n = 0 THEN <<>>
    ELSE AddAll(AllTimestamps(cryptoData, n - 1), cryptoData[n].timestamps)

\* A variant of Labels without the sort: the timestamps in insertion order.
LabelsUnsorted(cryptoData) == AllTimestamps(cryptoData, Len(cryptoData))

\* Array.from(allTimestamps).sort()
Labels(cryptoData) == Sort(AllTimestamps(cryptoData, Len(cryptoData)))

\* A variant of PriceMap in which an entry does not replace an earlier one of
\* the same key.
RECURSIVE PriceMapFirst(_, _)
PriceMapFirst(crypto, n) ==
    IF n = 0 THEN <<>>
    ELSE PriceMapFirst(crypto, n - 1) @@ (DecimalString(crypto.timestamps[n]) :> crypto.prices[n])

\* priceMap after the first n entries of a series: a later entry replaces an
\* earlier one of the same key.  The keys are the string forms.
RECURSIVE PriceMap(_, _)
PriceMap(crypto, n) ==
    IF n = 0 THEN <<>>
    ELSE (DecimalString(crypto.timestamps[n]) :> crypto.prices[n]) @@ PriceMap(crypto, n - 1)

\* priceMap[timestamp] !== undefined
Known(priceMap, t) == DecimalString(t) \in DOMAIN priceMap

Lookup(priceMap, t) == priceMap[DecimalString(t)]

SetMax(S) == CHOOSE x \in S : \A y \in S : y <= x
SetMin(S) == CHOOSE x \in S : \A y \in S : x <= y

\* beforeTimestamp: the label at the nearest index below i with a known price,
\* boxed, or null.
BeforeTimestamp(priceMap, labels, i) ==
    LET js == {j \in 1..(i - 1) : Known(priceMap, labels[j])}
    IN  IF js = {} THEN NULL ELSE <<labels[SetMax(js)]>>

\* afterTimestamp: the label at the nearest index above i with a known price.
AfterTimestamp(priceMap, labels, i) ==
    LET js == {j \in (i + 1)..Len(labels) : Known(priceMap, labels[j])}
    IN  IF js = {} THEN NULL ELSE <<labels[SetMin(js)]>>

\* beforePrice + ratio * (afterPrice - beforePrice)
Interpolate(beforePrice, afterPrice, beforeTime, afterTime, currentTime) ==
    LET ratio == Div(Num(currentTime - beforeTime), Num(afterTime - beforeTime))
    IN  Add(ToNumber(beforePrice),
            Mul(ratio, Sub(ToNumber(afterPrice), ToNumber(beforePrice))))

\* A variant of MissingPrice that yields 0 where it yields null.
MissingPriceZero(priceMap, beforeTimestamp, afterTimestamp, timestamp) ==
    IF Truthy(beforeTimestamp) /\ Truthy(afterTimestamp)
    THEN Interpolate(Lookup(priceMap, beforeTimestamp[1]),
                     Lookup(priceMap, afterTimestamp[1]),
                     GetTime(beforeTimestamp[1]), GetTime(afterTimestamp[1]),
                     GetTime(timestamp))
    ELSE IF Truthy(beforeTimestamp) THEN Lookup(priceMap, beforeTimestamp[1])
    ELSE IF Truthy(afterTimestamp) THEN Lookup(priceMap, afterTimestamp[1])
    ELSE Num(0)

\* What the loop pushes for labels[i] when the series has no price there.
MissingPrice(priceMap, beforeTimestamp, afterTimestamp, timestamp) ==
    IF Truthy(beforeTimestamp) /\ Truthy(afterTimestamp)
    THEN Interpolate(Lookup(priceMap, beforeTimestamp[1]),
                     Lookup(priceMap, afterTimestamp[1]),
                     GetTime(beforeTimestamp[1]), GetTime(afterTimestamp[1]),
                     GetTime(timestamp))
    ELSE IF Truthy(beforeTimestamp) THEN Lookup(priceMap, beforeTimestamp[1])
    ELSE IF Truthy(afterTimestamp) THEN Lookup(priceMap, afterTimestamp[1])
    ELSE NULL

\* A variant of InterpolatedPrice that fills every index from its neighbours.
InterpolatedPriceNeighbours(priceMap, labels, i) ==
    MissingPrice(priceMap, BeforeTimestamp(priceMap, labels, i),
                 AfterTimestamp(priceMap, labels, i), labels[i])

\* interpolatedPrices[i]
InterpolatedPrice(priceMap, labels, i) ==
    IF Known(priceMap, labels[i]) THEN Lookup(priceMap, labels[i])
    ELSE MissingPrice(priceMap, BeforeTimestamp(priceMap, labels, i),
                      AfterTimestamp(priceMap, labels, i), labels[i])

ProcessCrypto(crypto, labels) ==
    LET priceMap == PriceMap(crypto, Len(crypto.timestamps))
    IN  [symbol |-> crypto.symbol,
         interpolatedPrices |->
             [i \in 1..Len(labels) |-> InterpolatedPrice(priceMap, labels, i)]]

\* A variant of processChartData that returns null for no series.
processChartDataOrNull(cryptoData) ==
    IF Len(cryptoData) = 0 THEN NULL
    ELSE LET labels == Labels(cryptoData)
         IN  [labels |-> labels,
              processedCryptos |->
                  [k \in 1..Len(cryptoData) |-> ProcessCrypto(cryptoData[k], labels)]]

processChartData(cryptoData) ==
    LET labels == Labels(cryptoData)
    IN  [labels |-> labels,
         processedCryptos |->
             [k \in 1..Len(cryptoData) |-> ProcessCrypto(cryptoData[k], labels)]]

\* ---------------------------------------------------------- normalization

\* interpolatedPrices.filter(price => price !== null)
RECURSIVE ValidPrices(_)
ValidPrices(interpolatedPrices) ==
    IF interpolatedPrices = <<>> THEN <<>>
    ELSE IF Head(interpolatedPrices) # NULL
         THEN <<Head(interpolatedPrices)>> \o ValidPrices(Tail(interpolatedPrices))
         ELSE ValidPrices(Tail(interpolatedPrices))

\* A variant of NormalizePrice without the test for null: null is converted to
\* 0 by the subtraction.
NormalizePriceCoerced(price, minPrice, maxPrice) ==
    Mul(Div(Sub(ToNumber(price), minPrice), Sub(maxPrice, minPrice)), Num(100))

\* price !== null ? ((price - minPrice) / (maxPrice - minPrice)) * 100 : null
NormalizePrice(price, minPrice, maxPrice) ==
    IF price # NULL
    THEN Mul(Div(Sub(price, minPrice), Sub(maxPrice, minPrice)), Num(100))
    ELSE NULL

\* A variant of ZeroBasedNormalized that takes the least price for the minimum.
ZeroBasedNormalizedFromMin(interpolatedPrices) ==
    LET minPrice == MathMin(ValidPrices(interpolatedPrices))
        maxPrice == MathMax(ValidPrices(interpolatedPrices))
    IN  [i \in 1..Len(interpolatedPrices) |->
             NormalizePrice(interpolatedPrices[i], minPrice, maxPrice)]

\* A variant of ZeroBasedNormalized that gives up on a series without a valid
\* price and returns no values for it.
ZeroBasedNormalizedSkipEmpty(interpolatedPrices) ==
    IF ValidPrices(interpolatedPrices) = <<>> THEN <<>>
    ELSE [i \in 1..Len(interpolatedPrices) |->
             NormalizePrice(interpolatedPrices[i], Num(0),
                            MathMax(ValidPrices(interpolatedPrices)))]

\* normalizedPrices of renderZeroBasedChart: the minimum is fixed at 0.
ZeroBasedNormalized(interpolatedPrices) ==
    LET minPrice == Num(0)
        maxPrice == MathMax(ValidPrices(interpolatedPrices))
    IN  [i \in 1..Len(interpolatedPrices) |->
             NormalizePrice(interpolatedPrices[i], minPrice, maxPrice)]

\* A variant of MinMaxNormalized with the fixed minimum of the zero-based chart.
MinMaxNormalizedFromZero(interpolatedPrices) ==
    LET minPrice == Num(0)
        maxPrice == MathMax(ValidPrices(interpolatedPrices))
    IN  [i \in 1..Len(interpolatedPrices) |->
             NormalizePrice(interpolatedPrices[i], minPrice, maxPrice)]

\* normalizedPrices of renderMinMaxChart.
MinMaxNormalized(interpolatedPrices) ==
    LET minPrice == MathMin(ValidPrices(interpolatedPrices))
        maxPrice == MathMax(ValidPrices(interpolatedPrices))
    IN  [i \in 1..Len(interpolatedPrices) |->
             NormalizePrice(interpolatedPrices[i], minPrice, maxPrice)]

\* symbol.toUpperCase()
ToUpperCase(symbol) ==
    CASE symbol = "btc" -> "BTC" [] symbol = "eth" -> "ETH" [] symbol = "xrp" -> "XRP"
      [] symbol = "bnb" -> "BNB" [] symbol = "sol" -> "SOL" [] symbol = "doge" -> "DOGE"
      [] symbol = "trx" -> "TRX" [] symbol = "ada" -> "ADA"

ZeroBasedDatasets(data) ==
    [k \in 1..Len(data.processedCryptos) |->
        [label |-> ToUpperCase(data.processedCryptos[k].symbol),
         data |-> ZeroBasedNormalized(data.processedCryptos[k].interpolatedPrices)]]

MinMaxDatasets(data) ==
    [k \in 1..Len(data.processedCryptos) |->
        [label |-> ToUpperCase(data.processedCryptos[k].symbol),
         data |-> MinMaxNormalized(data.processedCryptos[k].interpolatedPrices)]]

\* ------------------------------------------------------------------ state

VARIABLES
    selectedTimeRange,    \* the module variable of that name
    clock,                \* what new Date() gives during the cycle
    cryptoDataPromises,   \* per symbol: the promise of fetchHistoricalData
    pc,                   \* "fetching": awaiting Promise.all; "rendered": done
    processedData,        \* what processChartData returned, NULL before
    zeroBasedChart,       \* the module variable: NULL or the chart
    minMaxChart,          \* the module variable: NULL or the chart
    responses,            \* per symbol: the response its request got, NULL before
    superseded,           \* the cycles superseded by a click, oldest first
    settled,              \* the symbols of the current cycle in the order in which
                          \* the page saw their requests settle
    clicked,              \* data-range of the time-range button clicked last, boxed;
                          \* NULL before
    dataTheme,            \* the attribute data-theme of the document
    chartInstances,       \* per canvas: the Chart instances created and destroyed
    call,                 \* a function called on its own, with its arguments
    result,               \* what that call returned, NULL before
    now,                  \* the time, for the timers of debounce
    timeout,              \* the variable of that name in the closure of debounce
    timers,               \* the timers set by setTimeout and neither run nor cleared
    calls,                \* the calls of the debounced function, oldest first
    invocations           \* the invocations of func, oldest first

vars == <<selectedTimeRange, clock, cryptoDataPromises, pc, processedData,
          zeroBasedChart, minMaxChart, responses, superseded, settled, clicked,
          dataTheme, chartInstances, call, result, now, timeout, timers, calls,
          invocations>>

\* What the page does not touch: the function called on its own and the
\* debounced function of the search box.
offPage == <<call, result, now, timeout, timers, calls, invocations>>

Symbols == 1..Len(Cryptos)

Themes == {"dark", "light"}

\* The background of the tooltip that a new chart gets.
NewTooltipBackground ==
    IF dataTheme = "dark" THEN "rgba(45, 45, 45, 0.9)" ELSE "rgba(255, 255, 255, 0.9)"

\* new Chart(ctx, {...}) of renderZeroBasedChart: the colours are those of the
\* document's theme and the y axis spans 90..100.
NewZeroBasedChart(data) ==
    [canvas |-> "zeroBasedChart", labels |-> data.labels,
     datasets |-> ZeroBasedDatasets(data), yMin |-> 90, yMax |-> 100,
     isDark |-> (dataTheme = "dark"), tooltipBackground |-> NewTooltipBackground]

\* new Chart(ctx, {...}) of renderMinMaxChart; the y axis spans 0..100.
NewMinMaxChart(data) ==
    [canvas |-> "minMaxChart", labels |-> data.labels,
     datasets |-> MinMaxDatasets(data), yMin |-> 0, yMax |-> 100,
     isDark |-> (dataTheme = "dark"), tooltipBackground |-> NewTooltipBackground]

\* The chart renderZeroBasedChart leaves in zeroBasedChart when the update of
\* an existing chart does not throw: the existing one with labels, datasets
\* and the bounds of the y axis assigned, or a new one.
renderZeroBasedChart(chart, data) ==
    IF chart # NULL
    THEN [chart EXCEPT !.labels = data.labels, !.datasets = ZeroBasedDatasets(data),
                       !.yMin = 90, !.yMax = 100]
    ELSE NewZeroBasedChart(data)

\* The chart renderMinMaxChart leaves in minMaxChart, likewise.
renderMinMaxChart(chart, data) ==
    IF chart # NULL
    THEN [chart EXCEPT !.labels = data.labels, !.datasets = MinMaxDatasets(data),
                       !.yMin = 0, !.yMax = 100]
    ELSE NewMinMaxChart(data)

NoInstances == [created |-> 0, destroyed |-> 0]

\* A variant of InstancesAfterRender that makes a chart at every call and
\* destroys none.
InstancesAlwaysCreated(count, chart, throws) ==
    [count EXCEPT !.created = @ + 1]

\* The instances of a canvas after a render call that found chart in the
\* module variable: one more created when there was none; one destroyed and
\* one more created when the update of the existing one threw; the same
\* otherwise.
InstancesAfterRender(count, chart, throws) ==
    IF chart = NULL THEN [count EXCEPT !.created = @ + 1]
    ELSE IF throws THEN [created |-> count.created + 1, destroyed |-> count.destroyed + 1]
    ELSE count

\* renderZeroBasedChart(data); renderMinMaxChart(data), where the update of an
\* existing chart throws or not (zThrows, mThrows): a chart whose update
\* throws is destroyed and a new one made in its place.
RenderBoth(data, zThrows, mThrows) ==
    /\ zeroBasedChart' =
           IF zeroBasedChart # NULL /\ zThrows THEN NewZeroBasedChart(data)
           ELSE renderZeroBasedChart(zeroBasedChart, data)
    /\ minMaxChart' =
           IF minMaxChart # NULL /\ mThrows THEN NewMinMaxChart(data)
           ELSE renderMinMaxChart(minMaxChart, data)
    /\ chartInstances' =
           [zeroBasedChart |->
                InstancesAfterRender(chartInstances.zeroBasedChart, zeroBasedChart, zThrows),
            minMaxChart |->
                InstancesAfterRender(chartInstances.minMaxChart, minMaxChart, mThrows)]

\* The response bodies of n entries at most: parallel arrays of equal length.
Responses(n) ==
    UNION {[timestamps : [1..k -> Timestamps], prices : [1..k -> Prices]] : k \in 0..n}

Pending == [state |-> "pending", value |-> NULL]

RECURSIVE SumLen(_, _)
SumLen(promises, n) ==
    IF n = 0 THEN 0
    ELSE SumLen(promises, n - 1)
         + (IF promises[n].state = "fulfilled" THEN Len(promises[n].value.timestamps) ELSE 0)

\* The entries held by the series fetched so far.
PointsHeld == SumLen(cryptoDataPromises, Len(cryptoDataPromises))

\* A variant of AllCryptoData that lists the values in the order in which the
\* requests settled.
AllCryptoDataAsSettled == [i \in 1..Len(settled) |-> cryptoDataPromises[settled[i]].value]

\* allCryptoData: the values of the promises, in the order of the symbols.
AllCryptoData == [k \in Symbols |-> cryptoDataPromises[k].value]

\* debounce has returned the debounced function, which nothing has called.
SearchIdle ==
    /\ now = 0
    /\ timeout = NULL
    /\ timers = {}
    /\ calls = <<>>
    /\ invocations = <<>>

\* No function is being called on its own and the search box is untouched.
OffPageIdle ==
    /\ call = NULL
    /\ result = NULL
    /\ SearchIdle

\* The page has loaded: fetchAllCryptosData has issued one request per symbol.
Loaded ==
    /\ selectedTimeRange = "24h"
    /\ cryptoDataPromises = [k \in Symbols |-> Pending]
    /\ pc = "fetching"
    /\ processedData = NULL
    /\ zeroBasedChart = NULL
    /\ minMaxChart = NULL
    /\ responses = [k \in Symbols |-> NULL]
    /\ superseded = <<>>
    /\ settled = <<>>
    /\ clicked = NULL
    /\ dataTheme = "dark"
    /\ chartInstances = [zeroBasedChart |-> NoInstances, minMaxChart |-> NoInstances]

Init ==
    /\ Loaded
    /\ clock \in Clocks
    /\ OffPageIdle

\* The request for symbol k is answered with the body data:
\* fetchHistoricalData filters it and its promise is fulfilled.
FetchResolved(k) ==
    /\ pc = "fetching"
    /\ cryptoDataPromises[k].state = "pending"
    /\ \E data \in Responses(MaxPoints - PointsHeld) :
          cryptoDataPromises' =
              [cryptoDataPromises EXCEPT ![k] =
                  [state |-> "fulfilled",
                   value |-> fetchHistoricalData(Cryptos[k], selectedTimeRange, data, clock)]]
    /\ UNCHANGED <<selectedTimeRange, clock, pc, processedData, zeroBasedChart, minMaxChart,
                   responses, superseded, settled, clicked, dataTheme, chartInstances>>
    /\ UNCHANGED offPage

\* A variant of RenderCharts that waits for every promise to settle and renders
\* the series that were fetched, as a join by Promise.allSettled would.
RenderChartsSettled ==
    /\ pc = "fetching"
    /\ \A k \in Symbols : cryptoDataPromises[k].state # "pending"
    /\ LET fulfilled == SelectSeq(cryptoDataPromises, LAMBDA p : p.state = "fulfilled")
           data == processChartData([k \in 1..Len(fulfilled) |-> fulfilled[k].value])
       IN  /\ processedData' = data
           /\ \E zThrows, mThrows \in BOOLEAN : RenderBoth(data, zThrows, mThrows)
    /\ pc' = "rendered"
    /\ UNCHANGED <<selectedTimeRange, clock, cryptoDataPromises, responses, superseded,
                   settled, clicked, dataTheme>>
    /\ UNCHANGED offPage

\* Promise.all is fulfilled: fetchAllCryptosData aligns the series and renders
\* both charts.
RenderCharts ==
    /\ pc = "fetching"
    /\ \A k \in Symbols : cryptoDataPromises[k].state = "fulfilled"
    /\ LET data == processChartData(AllCryptoData)
       IN  /\ processedData' = data
           /\ \E zThrows, mThrows \in BOOLEAN : RenderBoth(data, zThrows, mThrows)
    /\ pc' = "rendered"
    /\ UNCHANGED <<selectedTimeRange, clock, cryptoDataPromises, responses, superseded,
                   settled, clicked, dataTheme>>
    /\ UNCHANGED offPage

Next ==
    \/ \E k \in Symbols : FetchResolved(k)
    \/ RenderCharts

Spec == Init /\ [][Next]_vars

\* ------------------------------------------------------------------- page
\* The page over several fetch cycles: requests may fail, a click on a
\* time-range button starts a new cycle while the requests of the one before
\* are still out, and the theme may be switched.

\* The most entries the responses of a run of the page carry in total.
MaxPagePoints == 1

\* The most cycles a run of the page supersedes, that is, the most clicks that
\* change the range.
MaxSuperseded == 1

\* What the responses carry and what the clock shows: at 11 the timestamp 10
\* is within every range and 1 only within '7d' and '1m'.
PageTimestamps == {1, 10}
PagePrices == {Num(2)}
PageClocks == {11}

PageBodies(n) ==
    UNION {[timestamps : [1..k -> PageTimestamps], prices : [1..k -> PagePrices]] : k \in 0..n}

NoBody == [timestamps |-> <<>>, prices |-> <<>>]

\* What fetch() settles with: a response of some status whose body
\* response.json() reads as an object with the two arrays (json, data), one
\* whose body is no JSON or lacks the arrays, or no response at all
\* (status 0: fetch rejects).
Statuses == {200, 500}
NetworkError == [status |-> 0, json |-> FALSE, data |-> NoBody]
HttpResponses(n) ==
    [status : Statuses, json : {TRUE}, data : PageBodies(n)]
        \cup [status : Statuses, json : {FALSE}, data : {NoBody}]

\* How the promise of fetchHistoricalData settles for what fetch() settled
\* with: the status is not looked at.
FetchSettlement(symbol, timeRange, response, currentTime) ==
    IF response = NetworkError \/ ~response.json
    THEN [state |-> "rejected", value |-> NULL]
    ELSE [state |-> "fulfilled",
          value |-> fetchHistoricalData(symbol, timeRange, response.data, currentTime)]

\* The entries carried by the responses rs.
RECURSIVE EntriesOf(_, _)
EntriesOf(rs, n) ==
    IF n = 0 THEN 0
    ELSE EntriesOf(rs, n - 1) + (IF rs[n] = NULL THEN 0 ELSE Len(rs[n].data.timestamps))

RECURSIVE SupersededEntries(_)
SupersededEntries(n) ==
    IF n = 0 THEN 0
    ELSE SupersededEntries(n - 1) + EntriesOf(superseded[n].responses, Len(Cryptos))

PagePointsHeld == EntriesOf(responses, Len(Cryptos)) + SupersededEntries(Len(superseded))

\* The outcomes a request may have now.
FetchOutcomes == HttpResponses(MaxPagePoints - PagePointsHeld) \cup {NetworkError}

PageInit == Init /\ clock \in PageClocks

\* The request for symbol k of the current cycle settles: fetchHistoricalData
\* reads the response, filters its body for the range the cycle was started
\* with, and its promise is fulfilled, or it throws and the promise is rejected.
FetchSettled(k) ==
    /\ pc = "fetching"
    /\ cryptoDataPromises[k].state = "pending"
    /\ \E response \in FetchOutcomes :
          /\ responses' = [responses EXCEPT ![k] = response]
          /\ cryptoDataPromises' =
                 [cryptoDataPromises EXCEPT ![k] =
                     FetchSettlement(Cryptos[k], selectedTimeRange, response, clock)]
    /\ settled' = Append(settled, k)
    /\ UNCHANGED <<selectedTimeRange, clock, pc, processedData, zeroBasedChart, minMaxChart,
                   superseded, clicked, dataTheme, chartInstances>>
    /\ UNCHANGED offPage

\* Promise.all is rejected, which it is as soon as one promise is: the catch
\* clause of fetchAllCryptosData logs the error.
CatchError ==
    /\ pc = "fetching"
    /\ \E k \in Symbols : cryptoDataPromises[k].state = "rejected"
    /\ pc' = "failed"
    /\ UNCHANGED <<selectedTimeRange, clock, cryptoDataPromises, processedData,
                   zeroBasedChart, minMaxChart, responses, superseded, settled, clicked,
                   dataTheme, chartInstances>>
    /\ UNCHANGED offPage

\* The current cycle as a click leaves it behind: the range it was started
\* with, its requests and how far it has come.
CurrentCycle ==
    [timeRange |-> selectedTimeRange, cryptoDataPromises |-> cryptoDataPromises,
     pc |-> pc, responses |-> responses]

\* A variant of TimeRangeClick without the test for the selected range: every
\* click starts a new cycle.
TimeRangeClickAlways(timeRange) ==
    /\ Len(superseded) < MaxSuperseded
    /\ clicked' = <<timeRange>>
    /\ selectedTimeRange' = timeRange
    /\ superseded' = Append(superseded, CurrentCycle)
    /\ cryptoDataPromises' = [k \in Symbols |-> Pending]
    /\ responses' = [k \in Symbols |-> NULL]
    /\ settled' = <<>>
    /\ pc' = "fetching"
    /\ processedData' = NULL
    /\ UNCHANGED <<clock, zeroBasedChart, minMaxChart, dataTheme, chartInstances>>
    /\ UNCHANGED offPage

\* A click on the time-range button of data-range timeRange: nothing for the
\* selected range; otherwise the range is selected and fetchAllCryptosData
\* starts a new cycle, the requests of the cycle before staying out.  (The
\* handler also moves the class 'active' to the clicked button and writes the
\* time into the last-updated text: the one is selectedTimeRange and the other
\* clock, which does not move within a run.)
TimeRangeClick(timeRange) ==
    IF timeRange = selectedTimeRange
    THEN /\ clicked' = <<timeRange>>
         /\ UNCHANGED <<selectedTimeRange, clock, cryptoDataPromises, pc, processedData,
                        zeroBasedChart, minMaxChart, responses, superseded, settled,
                        dataTheme, chartInstances>>
         /\ UNCHANGED offPage
    ELSE /\ Len(superseded) < MaxSuperseded
         /\ clicked' = <<timeRange>>
         /\ selectedTimeRange' = timeRange
         /\ superseded' = Append(superseded, CurrentCycle)
         /\ cryptoDataPromises' = [k \in Symbols |-> Pending]
         /\ responses' = [k \in Symbols |-> NULL]
         /\ settled' = <<>>
         /\ pc' = "fetching"
         /\ processedData' = NULL
         /\ UNCHANGED <<clock, zeroBasedChart, minMaxChart, dataTheme, chartInstances>>
         /\ UNCHANGED offPage

\* allCryptoData of the superseded cycle c.
SupersededCryptoData(c) == [k \in Symbols |-> superseded[c].cryptoDataPromises[k].value]

\* A request of the superseded cycle c settles: it was not cancelled.
SupersededFetchSettled(c, k) ==
    /\ superseded[c].pc = "fetching"
    /\ superseded[c].cryptoDataPromises[k].state = "pending"
    /\ \E response \in FetchOutcomes :
          superseded' =
              [superseded EXCEPT
                  ![c].responses[k] = response,
                  ![c].cryptoDataPromises[k] =
                      FetchSettlement(Cryptos[k], superseded[c].timeRange, response, clock)]
    /\ UNCHANGED <<selectedTimeRange, clock, cryptoDataPromises, pc, processedData,
                   zeroBasedChart, minMaxChart, responses, settled, clicked, dataTheme,
                   chartInstances>>
    /\ UNCHANGED offPage

\* A variant of SupersededRenderCharts that drops the result of a cycle that
\* is not the one started last: the cycle ends and the charts stay.
SupersededRenderChartsDropped(c) ==
    /\ superseded[c].pc = "fetching"
    /\ \A k \in Symbols : superseded[c].cryptoDataPromises[k].state = "fulfilled"
    /\ superseded' = [superseded EXCEPT ![c].pc = "rendered"]
    /\ UNCHANGED <<selectedTimeRange, clock, cryptoDataPromises, pc, processedData, responses,
                   zeroBasedChart, minMaxChart, settled, clicked, dataTheme, chartInstances>>
    /\ UNCHANGED offPage

\* Promise.all of the superseded cycle c is fulfilled: its run of
\* fetchAllCryptosData aligns its series and renders both charts.
SupersededRenderCharts(c) ==
    /\ superseded[c].pc = "fetching"
    /\ \A k \in Symbols : superseded[c].cryptoDataPromises[k].state = "fulfilled"
    /\ LET data == processChartData(SupersededCryptoData(c))
       IN  \E zThrows, mThrows \in BOOLEAN : RenderBoth(data, zThrows, mThrows)
    /\ superseded' = [superseded EXCEPT ![c].pc = "rendered"]
    /\ UNCHANGED <<selectedTimeRange, clock, cryptoDataPromises, pc, processedData, responses,
                   settled, clicked, dataTheme>>
    /\ UNCHANGED offPage

\* Promise.all of the superseded cycle c is rejected.
SupersededCatchError(c) ==
    /\ superseded[c].pc = "fetching"
    /\ \E k \in Symbols : superseded[c].cryptoDataPromises[k].state = "rejected"
    /\ superseded' = [superseded EXCEPT ![c].pc = "failed"]
    /\ UNCHANGED <<selectedTimeRange, clock, cryptoDataPromises, pc, processedData,
                   zeroBasedChart, minMaxChart, responses, settled, clicked, dataTheme,
                   chartInstances>>
    /\ UNCHANGED offPage

\* A variant of updateChartTheme that keeps the full range 0..100 for every
\* chart.
updateChartThemeFullRange(chart, theme) ==
    IF chart = NULL THEN chart
    ELSE [chart EXCEPT !.isDark = (theme = "dark"),
                       !.tooltipBackground = IF theme = "dark" THEN "#2d2d2d" ELSE "#ffffff",
                       !.yMin = 0, !.yMax = 100]

\* updateChartTheme(chart, theme): the colours of the theme, and the bounds of
\* the y axis by which chart it is.  chart.update() comes last, so the
\* assignments stand even when it throws, which the function catches.
updateChartTheme(chart, theme) ==
    IF chart = NULL THEN chart
    ELSE [chart EXCEPT !.isDark = (theme = "dark"),
                       !.tooltipBackground = IF theme = "dark" THEN "#2d2d2d" ELSE "#ffffff",
                       !.yMin = IF chart = zeroBasedChart THEN 90 ELSE 0,
                       !.yMax = 100]

\* The document's theme is set to theme and the event themeChanged is
\* dispatched with it: the listener of the page updates the charts that exist.
ThemeChanged(theme) ==
    /\ dataTheme' = theme
    /\ zeroBasedChart' =
           IF zeroBasedChart # NULL THEN updateChartTheme(zeroBasedChart, theme)
           ELSE zeroBasedChart
    /\ minMaxChart' =
           IF minMaxChart # NULL THEN updateChartTheme(minMaxChart, theme)
           ELSE minMaxChart
    /\ UNCHANGED <<selectedTimeRange, clock, cryptoDataPromises, pc, processedData,
                   responses, superseded, settled, clicked, chartInstances>>
    /\ UNCHANGED offPage

PageNext ==
    \/ \E k \in Symbols : FetchSettled(k)
    \/ RenderCharts
    \/ CatchError
    \/ \E timeRange \in TimeRanges : TimeRangeClick(timeRange)
    \/ \E c \in DOMAIN superseded : \E k \in Symbols : SupersededFetchSettled(c, k)
    \/ \E c \in DOMAIN superseded : SupersededRenderCharts(c)
    \/ \E c \in DOMAIN superseded : SupersededCatchError(c)
    \/ \E theme \in Themes : ThemeChanged(theme)

PageSpec == PageInit /\ [][PageNext]_vars

\* The page with nobody at it: no click and no switch of theme.
IdleNext ==
    \/ \E k \in Symbols : FetchSettled(k)
    \/ RenderCharts
    \/ CatchError

\* RenderCharts can run: it is enabled in just these states.
RenderReady ==
    pc = "fetching" /\ \A k \in Symbols : cryptoDataPromises[k].state = "fulfilled"

\* Every request is settled in the end, by a response or by an error, and a
\* continuation that can run does run.  The last conjunct is the weak
\* fairness of RenderCharts, written with the states in which it is enabled.
IdleSpec ==
    /\ PageInit
    /\ [][IdleNext]_vars
    /\ WF_vars(\E k \in Symbols : FetchSettled(k))
    /\ WF_vars(CatchError)
    /\ []<>~RenderReady

\* -------------------------------------------------- functions on their own
\* fetchHistoricalData and processChartData called on their own, on arguments
\* that the page does not bring about: a range that no button carries, a
\* clock late enough for the three ranges to differ, an empty list of series
\* and the scenario of two series with prices 100, 110 and 50.

\* The most entries of a response body handed to fetchHistoricalData.
MaxEntries == 2

\* At 62 the range '24h' begins at 60, '7d' at 48 and '1m' at 2; 63 is yet to
\* come.
FilterTimestamps == {1, 2, 47, 48, 59, 60, 62, 63}
FilterClocks == {62}

\* A value of timeRange that none of the three branches tests for.
OtherRanges == {"1y"}

FilterBodies(n) ==
    UNION {[timestamps : [1..k -> FilterTimestamps], prices : [1..k -> Prices]] : k \in 0..n}

FilterCalls ==
    [fn : {"fetchHistoricalData"}, symbol : {"btc"}, timeRange : TimeRanges \cup OtherRanges,
     data : FilterBodies(MaxEntries), currentTime : FilterClocks]

\* BTC = [(t1, 100), (t3, 110)] and ETH = [(t2, 50)]
ScenarioBatch(t1, t2, t3) ==
    <<[symbol |-> "btc", timestamps |-> <<t1, t3>>, prices |-> <<Num(100), Num(110)>>],
      [symbol |-> "eth", timestamps |-> <<t2>>, prices |-> <<Num(50)>>]>>

\* The timestamps of the scenario: t1 < t2 < t3 evenly spaced, t2 midway.
ScenarioTimestamps == 0..11
ScenarioBatches ==
    {ScenarioBatch(t1, t2, t3) : <<t1, t2, t3>> \in
        {t \in ScenarioTimestamps \X ScenarioTimestamps \X ScenarioTimestamps :
            t[1] < t[2] /\ t[3] - t[2] = t[2] - t[1]}}

AlignCalls == [fn : {"processChartData"}, cryptoData : {<<>>} \cup ScenarioBatches]

\* A function is about to be called.
FunctionInit ==
    /\ Loaded
    /\ clock \in PageClocks
    /\ call \in FilterCalls \cup AlignCalls
    /\ result = NULL
    /\ SearchIdle

onPage == <<selectedTimeRange, clock, cryptoDataPromises, pc, processedData, zeroBasedChart,
            minMaxChart, responses, superseded, settled, clicked, dataTheme, chartInstances>>

\* fetchHistoricalData returns, the request having been answered with
\* call.data when the clock showed call.currentTime.
CallFetchHistoricalData ==
    /\ call.fn = "fetchHistoricalData"
    /\ result = NULL
    /\ result' = [value |-> fetchHistoricalData(call.symbol, call.timeRange, call.data,
                                                call.currentTime)]
    /\ UNCHANGED <<call, now, timeout, timers, calls, invocations>>
    /\ UNCHANGED onPage

\* processChartData returns.
CallProcessChartData ==
    /\ call.fn = "processChartData"
    /\ result = NULL
    /\ result' = [value |-> processChartData(call.cryptoData)]
    /\ UNCHANGED <<call, now, timeout, timers, calls, invocations>>
    /\ UNCHANGED onPage

FunctionNext ==
    \/ CallFetchHistoricalData
    \/ CallProcessChartData

FunctionSpec == FunctionInit /\ [][FunctionNext]_vars

\* ---------------------------------------------------------------- debounce
\* The function that debounce(func, wait) returns, as initEventListeners
\* attaches it to the search box, and the timers it sets.  A timer runs when
\* the event loop gets to it, which is at its due time or later; a call of
\* the debounced function and a timer that is due may run in either order.

\* wait, in units of time (300 ms in initEventListeners).
Wait == 2

\* The time up to which a run is followed, and the most calls made in a run.
MaxTime == 5
MaxCalls == 3

\* What a call may have for 'this' and for its arguments.
Receivers == {"searchCrypto", "window"}
Arguments == {<<"input">>, <<"change">>}

\* A variant of DebouncedCall without clearTimeout: the timer of the call
\* before stays set.
DebouncedCallUncleared(context, args) ==
    /\ Len(calls) < MaxCalls
    /\ calls' = Append(calls, [at |-> now, context |-> context, args |-> args])
    /\ timers' = timers \cup {[id |-> Len(calls) + 1, due |-> now + Wait,
                               context |-> context, args |-> args]}
    /\ timeout' = <<Len(calls) + 1>>
    /\ UNCHANGED <<now, invocations, call, result>>
    /\ UNCHANGED onPage

\* The debounced function is called with 'this' = context and arguments args:
\* clearTimeout(timeout) clears the timer of the call before, if it is still
\* set, and setTimeout sets one for this call, due after wait.  The id of a
\* timer is the number of the call that set it.
DebouncedCall(context, args) ==
    /\ Len(calls) < MaxCalls
    /\ calls' = Append(calls, [at |-> now, context |-> context, args |-> args])
    /\ timers' = {t \in timers : <<t.id>> # timeout}
                     \cup {[id |-> Len(calls) + 1, due |-> now + Wait,
                            context |-> context, args |-> args]}
    /\ timeout' = <<Len(calls) + 1>>
    /\ UNCHANGED <<now, invocations, call, result>>
    /\ UNCHANGED onPage

\* The timer t is due and the event loop runs its callback:
\* func.apply(context, args).  The invocation is logged with the timer that
\* made it and the number of calls made until then.
TimerFires(t) ==
    /\ t \in timers
    /\ t.due <= now
    /\ timers' = timers \ {t}
    /\ invocations' = Append(invocations, [at |-> now, context |-> t.context, args |-> t.args,
                                            timer |-> t.id, after |-> Len(calls)])
    /\ UNCHANGED <<now, timeout, calls, call, result>>
    /\ UNCHANGED onPage

\* Time passes.
Tick ==
    /\ now < MaxTime
    /\ now' = now + 1
    /\ UNCHANGED <<timeout, timers, calls, invocations, call, result>>
    /\ UNCHANGED onPage

DebounceNext ==
    \/ \E context \in Receivers : \E args \in Arguments : DebouncedCall(context, args)
    \/ \E t \in timers : TimerFires(t)
    \/ Tick

DebounceSpec == PageInit /\ [][DebounceNext]_vars

\* ------------------------------------------------- vocabulary of the claims

Rendered == pc = "rendered"

\* The timeline and the aligned series of the cycle, once rendered.
Timeline == processedData.labels
Aligned(k) == processedData.processedCryptos[k].interpolatedPrices
TimelineIndices == 1..Len(Timeline)

\* The input series k, as handed to processChartData.
Series(k) == AllCryptoData[k]
PointIndices(k) == 1..Len(Series(k).timestamps)
TimestampsOf(k) == {Series(k).timestamps[n] : n \in PointIndices(k)}

\* The prices series k lists at timestamp t.
PricesAt(k, t) == {Series(k).prices[n] : n \in {m \in PointIndices(k) : Series(k).timestamps[m] = t}}

\* The timeline indices at which series k has a point.
KnownIndices(k) == {i \in TimelineIndices : Timeline[i] \in TimestampsOf(k)}

\* The price of series k at timeline index i \in KnownIndices(k): that of the
\* last entry listing the timestamp.
PriceAtIndex(k, i) ==
    LET ns == {n \in PointIndices(k) : Series(k).timestamps[n] = Timeline[i]}
    IN  Series(k).prices[SetMax(ns)]

\* A valid price of the data model: a finite number, not negative.
ValidPrice(p) == p # NULL /\ IsFinite(p) /\ Leq(Num(0), p)

\* -------------------------------------------------------------------- C1
\* C1: the timeline returned by processChartData is in chronological order,
\* strictly increasing by the date values of its timestamps.
C1_TimelineChronological ==
    Rendered =>
        \A i \in 1..(Len(Timeline) - 1) : GetTime(Timeline[i]) < GetTime(Timeline[i + 1])

\* -------------------------------------------------------------------- C2
\* C2: the timeline holds exactly the timestamps that occur in at least one
\* input series, each of them once.
C2_TimelineIsUnion ==
    Rendered =>
        /\ {Timeline[i] : i \in TimelineIndices} = UNION {TimestampsOf(k) : k \in Symbols}
        /\ \A i, j \in TimelineIndices : Timeline[i] = Timeline[j] => i = j

\* Two series share a timestamp and each has one the other lacks.
C2_Witness ==
    /\ Rendered
    /\ \E k, l \in Symbols :
          /\ k # l
          /\ TimestampsOf(k) \cap TimestampsOf(l) # {}
          /\ TimestampsOf(k) \ TimestampsOf(l) # {}
    /\ Len(Timeline) >= 2

\* -------------------------------------------------------------------- C3
\* C3: where a series has a point at a timestamp of the timeline, its aligned
\* value at that index is a price the series lists at that timestamp (the
\* price, when it lists the timestamp once): known points are never replaced
\* by an interpolated or a neighbouring value.
C3_ExactValuePreserved ==
    Rendered =>
        \A k \in Symbols : \A i \in KnownIndices(k) :
            Aligned(k)[i] \in PricesAt(k, Timeline[i])

\* A series has a point between two timeline entries at which it has none,
\* and its price there differs from what a neighbouring series holds.
C3_Witness ==
    /\ Rendered
    /\ \E k \in Symbols : \E i \in KnownIndices(k) :
          /\ 1 < i /\ i < Len(Timeline)
          /\ KnownIndices(k) = {i}
          /\ Aligned(k)[i] = Num(2)

\* Series k holds price points of the data model only.
ValidSeries(k) == \A n \in PointIndices(k) : ValidPrice(Series(k).prices[n])

\* A timeline index i at which series k has no point but has a known point
\* both earlier and later on the timeline.
Between(k, i) ==
    /\ i \in TimelineIndices \ KnownIndices(k)
    /\ \E b \in KnownIndices(k) : b < i
    /\ \E a \in KnownIndices(k) : a > i

\* The nearest timeline index before / after i at which series k has a point.
NearestBefore(k, i) == SetMax({b \in KnownIndices(k) : b < i})
NearestAfter(k, i) == SetMin({a \in KnownIndices(k) : a > i})

\* beforePrice + (afterPrice - beforePrice) * (t_i - t_before) / (t_after - t_before)
LinearValue(k, i) ==
    LET b == NearestBefore(k, i)
        a == NearestAfter(k, i)
        beforePrice == ToNumber(PriceAtIndex(k, b))
        afterPrice == ToNumber(PriceAtIndex(k, a))
    IN  Add(beforePrice,
            Div(Mul(Sub(afterPrice, beforePrice), Num(GetTime(Timeline[i]) - GetTime(Timeline[b]))),
                Num(GetTime(Timeline[a]) - GetTime(Timeline[b]))))

\* -------------------------------------------------------------------- C4
\* C4: at a timeline index where a series (of valid price points) has no point
\* but has known points both earlier and later on the timeline, the aligned
\* value is the linear interpolation, by elapsed time, between the nearest
\* earlier and the nearest later known point.
C4_LinearInterpolation ==
    Rendered =>
        \A k \in Symbols : \A i \in TimelineIndices :
            ValidSeries(k) /\ Between(k, i) => Aligned(k)[i] = LinearValue(k, i)

\* -------------------------------------------------------------------- C5
\* C5: every value interpolated for a series (of valid price points) between
\* two of its known points (t0, p0) and (t1, p1) lies between min(p0, p1) and
\* max(p0, p1) inclusive.
C5_InterpolationBounds ==
    Rendered =>
        \A k \in Symbols : \A i \in TimelineIndices :
            ValidSeries(k) /\ Between(k, i) =>
                LET p0 == ToNumber(PriceAtIndex(k, NearestBefore(k, i)))
                    p1 == ToNumber(PriceAtIndex(k, NearestAfter(k, i)))
                    v == Aligned(k)[i]
                IN  /\ v # NULL
                    /\ \/ Leq(p0, v) /\ Leq(v, p1)
                       \/ Leq(p1, v) /\ Leq(v, p0)

\* -------------------------------------------------------------------- C6
\* C6: at a timeline index before the first known point of a series (of valid
\* price points) the aligned value is the price of that first point, and at
\* one after its last known point it is the price of that last point, whatever
\* the timestamps are.
C6_EdgeExtrapolation ==
    Rendered =>
        \A k \in Symbols : \A i \in TimelineIndices :
            ValidSeries(k) /\ KnownIndices(k) # {} =>
                /\ i < SetMin(KnownIndices(k)) =>
                       Aligned(k)[i] = PriceAtIndex(k, SetMin(KnownIndices(k)))
                /\ i > SetMax(KnownIndices(k)) =>
                       Aligned(k)[i] = PriceAtIndex(k, SetMax(KnownIndices(k)))

\* -------------------------------------------------------------------- C7
\* C7: every aligned series has one value per timeline entry, and a series
\* with at least one point (of valid price) has no null at any timeline index.
C7_DenseUnlessEmpty ==
    Rendered =>
        \A k \in Symbols :
            /\ Len(Aligned(k)) = Len(Timeline)
            /\ ValidSeries(k) /\ PointIndices(k) # {}
                  => \A i \in TimelineIndices : Aligned(k)[i] # NULL

\* The sequence xs without its k-th element.
Without(xs, k) == [j \in 1..(Len(xs) - 1) |-> IF j < k THEN xs[j] ELSE xs[j + 1]]

\* -------------------------------------------------------------------- C8
\* C8: aligning a batch in which a series is empty succeeds, gives that series
\* an aligned series of nulls only, and gives the timeline and the other
\* series the values that aligning the batch without the empty series gives.
C8_EmptySeriesNeutral ==
    Rendered =>
        \A k \in Symbols :
            PointIndices(k) = {} =>
                LET rest == processChartData(Without(AllCryptoData, k))
                IN  /\ Len(Aligned(k)) = Len(Timeline)
                    /\ \A i \in TimelineIndices : Aligned(k)[i] = NULL
                    /\ rest.labels = Timeline
                    /\ rest.processedCryptos = Without(processedData.processedCryptos, k)

\* One series is empty and the other has two points at different timestamps.
C8_Witness ==
    /\ Rendered
    /\ \E k, l \in Symbols :
          /\ PointIndices(k) = {}
          /\ Cardinality(TimestampsOf(l)) >= 2
          /\ Len(Aligned(k)) >= 2

\* -------------------------------------------------------------------- C9
\* C9: entries of invalid price (null, non-finite, negative) are removed from a
\* fetched series before alignment: no known point of a series that
\* processChartData aligns has an invalid price.
C9_InvalidPricesDropped ==
    Rendered =>
        \A k \in Symbols : \A i \in KnownIndices(k) : ValidPrice(PriceAtIndex(k, i))

\* The non-null values of the aligned series k.
AlignedValues(k) == {Aligned(k)[i] : i \in TimelineIndices} \ {NULL}

\* The least and the greatest of a non-empty set of finite numbers.
Lowest(S) == CHOOSE x \in S : \A y \in S : Leq(x, y)
Highest(S) == CHOOSE x \in S : \A y \in S : Leq(y, x)

\* ------------------------------------------------------------------- C10
\* C10: min-max normalization maps every non-null value v of a series whose
\* least and greatest non-null values lo and hi differ to (v - lo) / (hi - lo) * 100:
\* 0 where the series holds lo, 100 where it holds hi.
C10_MinMaxNormalization ==
    Rendered =>
        \A k \in Symbols :
            (AlignedValues(k) # {} /\ Lowest(AlignedValues(k)) # Highest(AlignedValues(k))) =>
                LET lo == Lowest(AlignedValues(k))
                    hi == Highest(AlignedValues(k))
                    normalized == minMaxChart.datasets[k].data
                IN  \A i \in TimelineIndices :
                        Aligned(k)[i] # NULL =>
                            /\ normalized[i] = Mul(Div(Sub(Aligned(k)[i], lo), Sub(hi, lo)), Num(100))
                            /\ Aligned(k)[i] = lo => normalized[i] = Num(0)
                            /\ Aligned(k)[i] = hi => normalized[i] = Num(100)

\* A series is normalized to 0, 50, 100, as [100, 105, 110] is.
C10_Witness ==
    /\ Rendered
    /\ \E k \in Symbols :
          /\ Aligned(k) = <<Num(0), Num(1), Num(2)>>
          /\ minMaxChart.datasets[k].data = <<Num(0), Num(50), Num(100)>>

\* The aligned series k holds one value at all its non-null indices.
ConstantSeries(k) == Cardinality(AlignedValues(k)) = 1

\* The normalized series of symbol k on the two charts.
ZeroBasedSeries(k) == zeroBasedChart.datasets[k].data
MinMaxSeries(k) == minMaxChart.datasets[k].data

\* ------------------------------------------------------------------- C11
\* C11: normalizing a series whose non-null values are all the same yields no
\* undefined number: min-max normalization gives 50 at every non-null index,
\* and zero-based normalization gives 0 at every non-null index when that
\* value (the maximum) is 0.
C11_ConstantSeriesSafe ==
    Rendered =>
        \A k \in Symbols :
            ConstantSeries(k) =>
                \A i \in TimelineIndices :
                    Aligned(k)[i] # NULL =>
                        /\ MinMaxSeries(k)[i] = Num(50)
                        /\ Aligned(k)[i] = Num(0) => ZeroBasedSeries(k)[i] = Num(0)

\* ------------------------------------------------------------------- C12
\* C12: zero-based normalization maps every non-null value v of a series whose
\* greatest non-null value hi is above 0 to v / hi * 100 (the floor is fixed
\* at 0): 100 where the series holds hi, and nowhere more than 100.
C12_ZeroBasedNormalization ==
    Rendered =>
        \A k \in Symbols :
            (AlignedValues(k) # {} /\ Less(Num(0), Highest(AlignedValues(k)))) =>
                LET hi == Highest(AlignedValues(k))
                IN  \A i \in TimelineIndices :
                        Aligned(k)[i] # NULL =>
                            /\ ZeroBasedSeries(k)[i] = Mul(Div(Aligned(k)[i], hi), Num(100))
                            /\ Aligned(k)[i] = hi => ZeroBasedSeries(k)[i] = Num(100)
                            /\ Leq(ZeroBasedSeries(k)[i], Num(100))

\* A falling series [2, 1, 0] is normalized to [100, 50, 0], and beside it a
\* series [2, 2, 2], whose least value is above 0, to [100, 100, 100].
C12_Witness ==
    /\ Rendered
    /\ \E k, l \in Symbols :
          /\ Aligned(k) = <<Num(2), Num(1), Num(0)>>
          /\ ZeroBasedSeries(k) = <<Num(100), Num(50), Num(0)>>
          /\ Aligned(l) = <<Num(2), Num(2), Num(2)>>
          /\ ZeroBasedSeries(l) = <<Num(100), Num(100), Num(100)>>

\* lo <= v <= hi, for a number v and integers lo and hi; NaN is in no range.
WithinRange(v, lo, hi) == Leq(Num(lo), v) /\ Leq(v, Num(hi))

\* ------------------------------------------------------------------- C13
\* C13: every non-null value of a normalized series lies within the target
\* range of its policy, [90, 100] on the zero-based chart and [0, 100] on the
\* min-max chart, for every aligned series of valid prices.
C13_NormalizedWithinRange ==
    Rendered =>
        \A k \in Symbols :
            (ValidSeries(k) /\ \A v \in AlignedValues(k) : ValidPrice(v)) =>
                \A i \in TimelineIndices :
                    /\ ZeroBasedSeries(k)[i] # NULL => WithinRange(ZeroBasedSeries(k)[i], 90, 100)
                    /\ MinMaxSeries(k)[i] # NULL => WithinRange(MinMaxSeries(k)[i], 0, 100)

\* The part of C13 about the zero-based chart, for the series that have a
\* value above 0 (and so no undefined number).
C13_ZeroBasedAbove90 ==
    Rendered =>
        \A k \in Symbols :
            (/\ ValidSeries(k)
             /\ \A v \in AlignedValues(k) : ValidPrice(v)
             /\ \E v \in AlignedValues(k) : Less(Num(0), v)) =>
                \A i \in TimelineIndices :
                    ZeroBasedSeries(k)[i] # NULL => WithinRange(ZeroBasedSeries(k)[i], 90, 100)

\* ------------------------------------------------------------------- C14
\* C14: on both charts the normalized series has a null at exactly the indices
\* at which the aligned series has one: a null stays null (it never becomes 0
\* or any other number) and a number never becomes null.
C14_NullPropagation ==
    Rendered =>
        \A k \in Symbols :
            /\ Len(ZeroBasedSeries(k)) = Len(Aligned(k))
            /\ Len(MinMaxSeries(k)) = Len(Aligned(k))
            /\ \A i \in TimelineIndices :
                  /\ (ZeroBasedSeries(k)[i] = NULL) <=> (Aligned(k)[i] = NULL)
                  /\ (MinMaxSeries(k)[i] = NULL) <=> (Aligned(k)[i] = NULL)

\* An aligned series holds a null beside two different numbers, and its
\* normalized series hold the null at the same index.
C14_Witness ==
    /\ Rendered
    /\ \E k \in Symbols : \E i, j \in TimelineIndices :
          /\ Aligned(k)[i] = NULL
          /\ Aligned(k)[j] # NULL
          /\ Cardinality(AlignedValues(k)) = 2
          /\ ZeroBasedSeries(k)[i] = NULL /\ ZeroBasedSeries(k)[j] = Num(100)
          /\ MinMaxSeries(k)[i] = NULL /\ MinMaxSeries(k)[j] = Num(100)

\* The aligned series k holds nulls only.
AllNull(k) == \A i \in TimelineIndices : Aligned(k)[i] = NULL

\* processedData without its k-th series.
ProcessedWithout(k) ==
    [processedData EXCEPT !.processedCryptos = Without(processedData.processedCryptos, k)]

\* ------------------------------------------------------------------- C15
\* C15: an aligned series of nulls only is normalized, on both charts, to a
\* series of the same length of nulls only, and the other series of the batch
\* are normalized as they are in the batch without it.
C15_AllNullSeries ==
    Rendered =>
        \A k \in Symbols :
            AllNull(k) =>
                /\ ZeroBasedSeries(k) = [i \in TimelineIndices |-> NULL]
                /\ MinMaxSeries(k) = [i \in TimelineIndices |-> NULL]
                /\ ZeroBasedDatasets(ProcessedWithout(k)) = Without(zeroBasedChart.datasets, k)
                /\ MinMaxDatasets(ProcessedWithout(k)) = Without(minMaxChart.datasets, k)

\* A series that is not empty aligns to two nulls, beside a series that is
\* normalized to [0, 100].
C15_Witness ==
    /\ Rendered
    /\ \E k, l \in Symbols :
          /\ PointIndices(k) # {}
          /\ AllNull(k)
          /\ ZeroBasedSeries(k) = <<NULL, NULL>>
          /\ MinMaxSeries(l) = <<Num(0), Num(100)>>

\* The rearrangements (permutations) of 1..n, and the sequence xs rearranged
\* by one of them.
Rearrangements(n) == {p \in [1..n -> 1..n] : \A i, j \in 1..n : p[i] = p[j] => i = j}
Permuted(xs, p) == [i \in 1..Len(xs) |-> xs[p[i]]]

\* ------------------------------------------------------------------- C20
\* C20: aligning the batch with its series in any other order gives the same
\* timeline and gives every symbol the aligned values it has in the batch as
\* fetched.
C20_OrderIndependent ==
    Rendered =>
        \A p \in Rearrangements(Len(Cryptos)) :
            LET out == processChartData(Permuted(AllCryptoData, p))
            IN  /\ out.labels = Timeline
                /\ out.processedCryptos = Permuted(processedData.processedCryptos, p)

\* The two orders of the batch put the timestamps into the set in different
\* orders, and a series gets a value by interpolation.
C20_Witness ==
    /\ Rendered
    /\ \E p \in Rearrangements(Len(Cryptos)) :
          AllTimestamps(Permuted(AllCryptoData, p), Len(Cryptos))
              # AllTimestamps(AllCryptoData, Len(Cryptos))
    /\ \E k \in Symbols : ValidSeries(k) /\ \E i \in TimelineIndices : Between(k, i)

\* ------------------------------------------- vocabulary of the page claims

\* Every request of the current cycle / of the superseded cycle c has been
\* answered with a series.
AllFulfilled == \A k \in Symbols : cryptoDataPromises[k].state = "fulfilled"
SupersededAllFulfilled(c) ==
    \A k \in Symbols : superseded[c].cryptoDataPromises[k].state = "fulfilled"

\* A step in which the current cycle / the superseded cycle c ends by
\* rendering, or ends in the catch clause.
CycleRenders == pc = "fetching" /\ pc' = "rendered"
SupersededCycleRenders(c) == superseded[c].pc = "fetching" /\ superseded'[c].pc = "rendered"
CycleFails == pc = "fetching" /\ pc' = "failed"
SupersededCycleFails(c) == superseded[c].pc = "fetching" /\ superseded'[c].pc = "failed"

\* What a chart shows: its labels and datasets, NULL for no chart.
Shown(chart) ==
    IF chart = NULL THEN NULL ELSE [labels |-> chart.labels, datasets |-> chart.datasets]

\* A step that leaves the labels and datasets of both charts as they are.
ChartsUnchanged ==
    /\ Shown(zeroBasedChart)' = Shown(zeroBasedChart)
    /\ Shown(minMaxChart)' = Shown(minMaxChart)

\* ------------------------------------------------------------------- C16
\* C16: a cycle aligns and renders only once all its requests have been
\* answered with a series; a cycle that ends in failure changes neither
\* chart, and the charts change in no step other than the render of a cycle
\* whose requests have all succeeded.
C16_AllOrNothingStep ==
    /\ CycleRenders => AllFulfilled
    /\ \A c \in DOMAIN superseded : SupersededCycleRenders(c) => SupersededAllFulfilled(c)
    /\ CycleFails => ChartsUnchanged /\ processedData' = NULL
    /\ \A c \in DOMAIN superseded : SupersededCycleFails(c) => ChartsUnchanged
    /\ ~ChartsUnchanged =>
           \/ CycleRenders /\ AllFulfilled
           \/ \E c \in DOMAIN superseded : SupersededCycleRenders(c) /\ SupersededAllFulfilled(c)

\* C16: every step of the page is such a step.
C16_AllOrNothingJoin == [][C16_AllOrNothingStep]_vars

\* A cycle has failed with one request answered and the other not, and the
\* charts still show the timeline [10] that the cycle before it rendered.
C16_Witness ==
    /\ pc = "failed"
    /\ \E k, l \in Symbols :
          /\ cryptoDataPromises[k].state = "fulfilled"
          /\ cryptoDataPromises[l].state = "rejected"
    /\ Len(superseded) = 1
    /\ superseded[1].pc = "rendered"
    /\ zeroBasedChart = renderZeroBasedChart(NULL, processChartData(SupersededCryptoData(1)))
    /\ minMaxChart = renderMinMaxChart(NULL, processChartData(SupersededCryptoData(1)))
    /\ zeroBasedChart.labels = <<10>>

\* What the superseded cycle c aligns.
SupersededProcessedData(c) == processChartData(SupersededCryptoData(c))

\* ------------------------------------------------------------------- C17
\* C17: the result of a superseded cycle is never dropped: when such a cycle
\* ends with all its requests answered, both charts take its data, while
\* selectedTimeRange stays what the clicks after it have made it.  So a run
\* exists (C17_Witness) in which the range goes from A to B, the cycle for B
\* renders, the cycle for A renders after it, and the charts show A's data
\* under the selection B.
C17_StaleRenderStep ==
    \A c \in DOMAIN superseded :
        SupersededCycleRenders(c) =>
            /\ Shown(zeroBasedChart)'
                   = Shown(renderZeroBasedChart(zeroBasedChart, SupersededProcessedData(c)))
            /\ Shown(minMaxChart)'
                   = Shown(renderMinMaxChart(minMaxChart, SupersededProcessedData(c)))
            /\ selectedTimeRange' = selectedTimeRange

\* C17: every render of a superseded cycle overwrites the charts so.
C17_StaleOverwrite == [][C17_StaleRenderStep]_vars

\* The cycle for B (the current one) and the cycle for A (superseded) have
\* both rendered, and both charts show the data of A, which is not what the
\* cycle for B rendered, while the selected range is B.
C17_Witness ==
    /\ pc = "rendered"
    /\ Len(superseded) = 1
    /\ superseded[1].pc = "rendered"
    /\ superseded[1].timeRange # selectedTimeRange
    /\ zeroBasedChart = renderZeroBasedChart(NULL, SupersededProcessedData(1))
    /\ minMaxChart = renderMinMaxChart(NULL, SupersededProcessedData(1))
    /\ zeroBasedChart # renderZeroBasedChart(NULL, processedData)
    /\ minMaxChart # renderMinMaxChart(NULL, processedData)

\* The status of the response is a success status (200 to 299).
Ok(response) == response.status \in 200..299

\* The request got a response and its status is not a success status.
NonSuccess(response) == response # NULL /\ response # NetworkError /\ ~Ok(response)

\* ------------------------------------------------------------------- C18
\* C18: a request answered with a non-success status is a failed fetch,
\* whatever the body: its promise is rejected and its cycle does not align
\* and render.
C18_NonSuccessIsFailure ==
    /\ \A k \in Symbols :
          NonSuccess(responses[k]) =>
              cryptoDataPromises[k].state = "rejected" /\ pc # "rendered"
    /\ \A c \in DOMAIN superseded : \A k \in Symbols :
          NonSuccess(superseded[c].responses[k]) =>
              /\ superseded[c].cryptoDataPromises[k].state = "rejected"
              /\ superseded[c].pc # "rendered"

\* A chart is on show in its canvas.
ChartsShown == zeroBasedChart # NULL \/ minMaxChart # NULL

\* ------------------------------------------------------------------- C19
\* C19: when a cycle fails the page enters an error state that the user sees:
\* an error message stands in place of the charts, so that after the step in
\* which a cycle fails no chart is on show.  (The view has no element for an
\* error message; its only outputs are the two charts and the console.)
C19_ErrorStateStep ==
    /\ CycleFails => ~ChartsShown'
    /\ \A c \in DOMAIN superseded : SupersededCycleFails(c) => ~ChartsShown'

\* C19: every failure of a cycle takes the charts off show.
C19_ErrorStateShown == [][C19_ErrorStateStep]_vars

\* ------------------------------------------------------------------- C21
\* The charts that exist.
Charts == {chart \in {zeroBasedChart, minMaxChart} : chart # NULL}

\* C21: the aligned series and the datasets of both charts are in the order
\* of the symbol list, in whatever order the requests completed: the k-th
\* aligned series is that of the k-th symbol, computed from the series that
\* the request for that symbol was answered with, and the k-th dataset of a
\* chart carries the k-th symbol.
C21_SeriesOrder ==
    /\ Rendered =>
           /\ Len(processedData.processedCryptos) = Len(Cryptos)
           /\ \A k \in Symbols :
                  /\ processedData.processedCryptos[k].symbol = Cryptos[k]
                  /\ cryptoDataPromises[k].value.symbol = Cryptos[k]
                  /\ processedData.processedCryptos[k]
                         = ProcessCrypto(cryptoDataPromises[k].value, processedData.labels)
    /\ \A chart \in Charts :
           /\ Len(chart.datasets) = Len(Cryptos)
           /\ \A k \in Symbols : chart.datasets[k].label = ToUpperCase(Cryptos[k])

\* The request for eth completed before the one for btc, the cycle has
\* rendered, and btc, the first series, is the one with an entry.
C21_Witness ==
    /\ Rendered
    /\ settled = <<2, 1>>
    /\ Len(cryptoDataPromises[1].value.timestamps) = 1
    /\ Len(cryptoDataPromises[2].value.timestamps) = 0
    /\ zeroBasedChart.datasets[1].label = "BTC"

\* ------------------------------------------------------------------- C22
\* C22: render cycles recur without user action: once a cycle has rendered, a
\* new one is started in the end (by a periodic timer), so that what is
\* displayed is refreshed even if the user does nothing.
C22_PeriodicRefresh == Rendered ~> (pc = "fetching")

\* ------------------------------------------------------------------- C23
\* processChartData was called on its own and has returned.
Aligner == call # NULL /\ call.fn = "processChartData" /\ result # NULL

\* C23: for BTC = [(t1, 100), (t3, 110)] and ETH = [(t2, 50)] with
\* t1 < t2 < t3 (t2 midway), the timeline is [t1, t2, t3], the aligned BTC
\* series is [100, 105, 110] and the aligned ETH series is [50, 50, 50].
C23_Scenario ==
    \A t1, t2, t3 \in ScenarioTimestamps :
        Aligner /\ call.cryptoData = ScenarioBatch(t1, t2, t3) /\ t1 < t2 /\ t2 < t3 =>
            /\ result.value.labels = <<t1, t2, t3>>
            /\ result.value.processedCryptos[1].interpolatedPrices
                   = <<Num(100), Num(105), Num(110)>>
            /\ result.value.processedCryptos[2].interpolatedPrices
                   = <<Num(50), Num(50), Num(50)>>

\* ------------------------------------------------------------------- C24
\* C24: aligning an empty list of series returns an empty timeline and an
\* empty list of aligned series.
C24_EmptyBatch ==
    Aligner /\ call.cryptoData = <<>> =>
        result.value = [labels |-> <<>>, processedCryptos |-> <<>>]

\* processChartData has returned from the call on the empty list.
C24_Witness ==
    /\ Aligner
    /\ Len(call.cryptoData) = 0
    /\ result.value # NULL
    /\ Len(result.value.labels) = 0

\* ------------------------------------------------------------------- C29
\* fetchHistoricalData was called on its own and has returned.
Filter == call # NULL /\ call.fn = "fetchHistoricalData" /\ result # NULL

\* The length of a range: 24 hours, 7 days and 30 days (a day is 2 units).
RangeLength(timeRange) ==
    CASE timeRange = "24h" -> 2 [] timeRange = "7d" -> 14 [] timeRange = "1m" -> 60

\* The entries of a response body, each timestamp with its price.
Entries(data) == [n \in 1..Len(data.timestamps) |-> <<data.timestamps[n], data.prices[n]>>]

\* The entries of the body whose timestamp lies within the range that ends at
\* currentTime, in their order.
EntriesWithin(data, timeRange, currentTime) ==
    SelectSeq(Entries(data),
              LAMBDA e : currentTime - RangeLength(timeRange) <= e[1] /\ e[1] <= currentTime)

\* C29: fetchHistoricalData returns two arrays of equal length that hold, in
\* their order and each price with its timestamp, exactly the entries of the
\* response with now - range <= t <= now, for '24h', '7d' and '1m'; for any
\* other range it returns an empty series.
C29_TimeWindowFilter ==
    Filter =>
        /\ Len(result.value.timestamps) = Len(result.value.prices)
        /\ call.timeRange \in TimeRanges =>
               Entries(result.value) = EntriesWithin(call.data, call.timeRange, call.currentTime)
        /\ call.timeRange \notin TimeRanges =>
               result.value.timestamps = <<>> /\ result.value.prices = <<>>

\* The call for '7d' at 62 on the entries (47, null) and (48, 2) has returned
\* the second one alone: 48 is the first instant of the range.
C29_Witness ==
    /\ Filter
    /\ call.timeRange = "7d"
    /\ Entries(call.data) = <<<<47, NULL>>, <<48, Num(2)>>>>
    /\ Entries(result.value) = <<<<48, Num(2)>>>>

\* ------------------------------------------------------------------- C30
\* The indices of the entries of a series that list a timestamp for the last
\* time.
LastOccurrences(crypto) ==
    {n \in 1..Len(crypto.timestamps) :
        \A m \in (n + 1)..Len(crypto.timestamps) : crypto.timestamps[m] # crypto.timestamps[n]}

\* The entries of xs at the indices in S, in their order.
RECURSIVE Restricted(_, _, _)
Restricted(xs, S, n) ==
    IF n = 0 THEN <<>>
    ELSE IF n \in S THEN Append(Restricted(xs, S, n - 1), xs[n])
    ELSE Restricted(xs, S, n - 1)

\* A series without the entries whose timestamp a later entry lists again.
LastOnly(crypto) ==
    [symbol |-> crypto.symbol,
     timestamps |-> Restricted(crypto.timestamps, LastOccurrences(crypto), Len(crypto.timestamps)),
     prices |-> Restricted(crypto.prices, LastOccurrences(crypto), Len(crypto.prices))]

\* Series k lists some timestamp more than once.
Repeats(k) == LastOccurrences(Series(k)) # PointIndices(k)

\* C30: when a series lists a timestamp more than once, the timeline holds
\* that timestamp once, the aligned value of the series there is the price
\* of the last entry that lists it, and the earlier entries have no effect:
\* the result is that of aligning the series without them.
C30_LastOccurrenceWins ==
    Rendered =>
        \A k \in Symbols :
            Repeats(k) =>
                /\ \A t \in TimestampsOf(k) :
                       Cardinality({i \in TimelineIndices : Timeline[i] = t}) = 1
                /\ \A i \in KnownIndices(k) :
                       \A n \in LastOccurrences(Series(k)) :
                           Series(k).timestamps[n] = Timeline[i] =>
                               Aligned(k)[i] = Series(k).prices[n]
                /\ processChartData([AllCryptoData EXCEPT ![k] = LastOnly(@)]) = processedData

\* A series lists one timestamp twice, first with price 0 and then with price
\* 2, and its aligned value there is 2; the other series has a point elsewhere.
C30_Witness ==
    /\ Rendered
    /\ \E k, l \in Symbols :
          /\ Series(k).timestamps = <<1, 1>>
          /\ Series(k).prices = <<Num(0), Num(2)>>
          /\ Series(l).timestamps = <<2>>
          /\ Timeline = <<1, 2>>
          /\ Aligned(k)[1] = Num(2)

\* ------------------------------------------------------------------- C25
\* C25: whatever was rendered and however often the theme was switched, the
\* y axis of the zero-based chart spans 90..100 and that of the min-max chart
\* 0..100, whenever the charts exist.
C25_AxisWindow ==
    /\ zeroBasedChart # NULL => zeroBasedChart.yMin = 90 /\ zeroBasedChart.yMax = 100
    /\ minMaxChart # NULL => minMaxChart.yMin = 0 /\ minMaxChart.yMax = 100

\* Two cycles have rendered, the later one an entry, and both charts carry
\* the tooltip colour that only a switch to the light theme gives a chart.
C25_Witness ==
    /\ Rendered
    /\ Len(superseded) = 1
    /\ superseded[1].pc = "rendered"
    /\ zeroBasedChart # NULL
    /\ minMaxChart # NULL
    /\ zeroBasedChart.tooltipBackground = "#ffffff"
    /\ minMaxChart.tooltipBackground = "#ffffff"
    /\ Len(zeroBasedChart.labels) = 1

\* ------------------------------------------------------------------- C27
\* The step is seen to be a click on the button of data-range r.
ClickOn(r) == clicked' = <<r>> /\ clicked # <<r>>

\* C27: a click on the button of the selected range changes no state and
\* starts no fetch; a click on another button selects its range and starts
\* exactly one new cycle, the cycle before being left as it is, and every
\* request of the cycle of a click is filtered for the range of that click.
C27_ClickStep ==
    /\ \A r \in TimeRanges :
           ClickOn(r) =>
               IF r = selectedTimeRange
               THEN UNCHANGED <<selectedTimeRange, cryptoDataPromises, pc, processedData,
                                zeroBasedChart, minMaxChart, responses, superseded, settled>>
               ELSE /\ selectedTimeRange' = r
                    /\ superseded' = Append(superseded, CurrentCycle)
                    /\ cryptoDataPromises' = [k \in Symbols |-> Pending]
                    /\ pc' = "fetching"
                    /\ UNCHANGED <<zeroBasedChart, minMaxChart>>
    /\ \A k \in Symbols :
           /\ clicked # NULL
           /\ clicked' = clicked
           /\ cryptoDataPromises[k].state = "pending"
           /\ cryptoDataPromises'[k].state = "fulfilled"
           => cryptoDataPromises'[k].value
                  = fetchHistoricalData(Cryptos[k], clicked[1], responses'[k].data, clock)

\* C27: every step of the page is such a step.
C27_TimeRangeSelection == [][C27_ClickStep]_vars

\* The button '7d' was clicked while '24h' was selected: '7d' is selected, one
\* cycle is superseded, and the request for btc of the new cycle has been
\* answered and has kept the entry at 1, which is within '7d' only.
C27_Witness ==
    /\ clicked = <<"7d">>
    /\ selectedTimeRange = "7d"
    /\ Len(superseded) = 1
    /\ superseded[1].timeRange = "24h"
    /\ cryptoDataPromises[1].state = "fulfilled"
    /\ cryptoDataPromises[1].value.timestamps = <<1>>
    /\ cryptoDataPromises[2].state = "pending"

\* ------------------------------------------------------------------- C28
\* The Chart instances on a canvas that were created and not destroyed.
Live(canvas) == chartInstances[canvas].created - chartInstances[canvas].destroyed

\* The module variable that holds the chart of a canvas.
ChartOf(canvas) == IF canvas = "zeroBasedChart" THEN zeroBasedChart ELSE minMaxChart

\* The step is the render of a cycle, the current one or a superseded one.
RenderStep == CycleRenders \/ \E c \in DOMAIN superseded : SupersededCycleRenders(c)

\* A chart is the instance it was, with labels and datasets that may be new.
SameInstance(before, after) ==
    after = [before EXCEPT !.labels = after.labels, !.datasets = after.datasets]

\* C28: a canvas never has more than one live chart, and has one exactly when
\* its module variable is set; a render call creates a chart only when the
\* variable is null or when it destroys the one there, which it replaces by
\* exactly one; otherwise the instance stays and gets labels and datasets.
C28_SingletonStep ==
    \A canvas \in {"zeroBasedChart", "minMaxChart"} :
        LET count == chartInstances[canvas]
        IN  /\ Live(canvas) = (IF ChartOf(canvas) = NULL THEN 0 ELSE 1)
            /\ Live(canvas)' = (IF ChartOf(canvas)' = NULL THEN 0 ELSE 1)
            /\ count'.created \in {count.created, count.created + 1}
            /\ count'.destroyed \in {count.destroyed, count.destroyed + 1}
            /\ count'.created > count.created =>
                   ChartOf(canvas) = NULL \/ count'.destroyed > count.destroyed
            /\ count'.destroyed > count.destroyed =>
                   ChartOf(canvas) # NULL /\ count'.created > count.created
            /\ count' # count => RenderStep
            /\ RenderStep /\ ChartOf(canvas) # NULL /\ count' = count =>
                   SameInstance(ChartOf(canvas), ChartOf(canvas)')

\* C28: every step of the page is such a step.
C28_ChartSingleton == [][C28_SingletonStep]_vars

\* Two cycles have rendered: the update of the zero-based chart threw, so that
\* it was destroyed and replaced, and the min-max chart was updated in place.
C28_Witness ==
    /\ chartInstances.zeroBasedChart = [created |-> 2, destroyed |-> 1]
    /\ chartInstances.minMaxChart = [created |-> 1, destroyed |-> 0]
    /\ zeroBasedChart # NULL
    /\ minMaxChart # NULL
    /\ Rendered
    /\ superseded[1].pc = "rendered"

\* ------------------------------------------------------------------- C26
\* Call j is the last of its burst: no call follows it by less than wait.
LastOfBurst(j) == j = Len(calls) \/ calls[j + 1].at - calls[j].at >= Wait

\* The invocations of func made by the timer of call j.
InvocationsOf(j) == {i \in DOMAIN invocations : invocations[i].timer = j}

\* The timer of call j is set and has not run.
TimerPending(j) == \E t \in timers : t.id = j

\* Every invocation of func is for the last call of a burst, comes after
\* that call by wait at least, has its receiver and arguments, and is made
\* when no newer call has been made; no call is invoked twice.
InvokedForLastCall ==
    /\ \A i \in DOMAIN invocations :
           LET inv == invocations[i]
           IN  /\ LastOfBurst(inv.timer)
               /\ inv.at >= calls[inv.timer].at + Wait
               /\ inv.context = calls[inv.timer].context
               /\ inv.args = calls[inv.timer].args
               /\ inv.after = inv.timer
    /\ \A j \in DOMAIN calls : Cardinality(InvocationsOf(j)) <= 1

\* C26 as stated: a burst of calls invokes func exactly once, after its last
\* call and with the receiver and arguments of that call, and func is never
\* invoked while a newer call is pending.  A burst is over when a later call
\* has been made or the timer of its last call is pending no more.
C26_DebounceAsStated ==
    /\ InvokedForLastCall
    /\ \A j \in DOMAIN calls :
           LastOfBurst(j) /\ (j < Len(calls) \/ ~TimerPending(j)) =>
               Cardinality(InvocationsOf(j)) = 1

\* C26, amended: a burst invokes func at most once, so; it does exactly once
\* when the timer of its last call has run before any later call is made,
\* and not at all when a later call is made first, which clears that timer
\* even if it was already due.
C26_Debounce ==
    /\ InvokedForLastCall
    /\ \A j \in DOMAIN calls :
           /\ j = Len(calls) /\ ~TimerPending(j) => Cardinality(InvocationsOf(j)) = 1
           /\ j < Len(calls) =>
                  /\ ~TimerPending(j)
                  /\ Cardinality(InvocationsOf(j)) = 1
                         <=> \E i \in DOMAIN invocations :
                                 invocations[i].timer = j /\ invocations[i].after = j

\* A burst of two calls, at 0 and at 1, with different receivers and
\* arguments, has invoked func once, at 3 or later, as the second call has it.
C26_Witness ==
    /\ Len(calls) = 2
    /\ calls[1] = [at |-> 0, context |-> "searchCrypto", args |-> <<"input">>]
    /\ calls[2] = [at |-> 1, context |-> "window", args |-> <<"change">>]
    /\ Len(invocations) = 1
    /\ invocations[1].context = "window"
    /\ invocations[1].args = <<"change">>
    /\ invocations[1].at >= 3
    /\ timers = {}

====
